---------------------------- MODULE Spec2Model ----------------------------
(***************************************************************************)
(* Health_Report/app.py: a Flask form that takes a CSV of lab results,     *)
(* maps every row to a biomarker (normalize_test_name), classifies it      *)
(* against NORMAL_RANGES (evaluate_record), looks for the DISEASE_RULES    *)
(* combinations (check_disease_combinations) and writes the upload and a   *)
(* derived results CSV under uploads/ (index).                             *)
(*                                                                         *)
(* Representation.  A Python str is a sequence of one-character strings,   *)
(* so that lower(), strip(), title(), split(), "in", int() and float()     *)
(* are computed character by character.  A Python float is a record        *)
(* [c, n]: c = "num" with n the value in tenths (every number of the       *)
(* tables and of the inputs has at most one decimal), c = "nan", or        *)
(* c = "inf" with n the sign.  Python's None is the record NoneValue where *)
(* a float may stand, and the string None where a message may stand.       *)
(***************************************************************************)
EXTENDS Integers, Sequences, FiniteSets, TLC

VARIABLES
    NORMAL_RANGES,    \* module global, app.py:23
    RECOMMENDATIONS,  \* module global, app.py:39
    DISEASE_RULES,    \* module global, app.py:57
    now,              \* the wall clock, in ticks (TicksPerSecond to a second)
    disk,             \* the files under uploads/: path -> content
    pc,               \* per request: where its handler stands
    request,          \* per request: the HTTP request it carries
    saved_path,       \* per request: index()'s local saved_path
    records,          \* per request: index()'s local records
    results,          \* per request: index()'s local evaluated / results
    disease_risks,    \* per request: index()'s local disease_risks
    flashes,          \* per request: the messages flash() queued
    response          \* per request: what the handler returned

tables == <<NORMAL_RANGES, RECOMMENDATIONS, DISEASE_RULES>>
vars == <<NORMAL_RANGES, RECOMMENDATIONS, DISEASE_RULES, now, disk, pc, request,
          saved_path, records, results, disease_risks, flashes, response>>

\* ------------------------------------------------------------------ bounds

\* Requests in flight at once.
NumReq == 2
\* Rows of an uploaded CSV in the batch specification.
MaxBatch == 3
\* The clock runs from 0 to MaxClock ticks.
MaxClock == 3
\* Clock ticks to a second: datetime.now() is finer than the %S of strftime.
TicksPerSecond == 2

\* ----------------------------------------------------------- Python strings

None == "<None>"

Upper == <<"A","B","C","D","E","F","G","H","I","J","K","L","M","N","O","P","Q","R","S","T","U","V","W","X","Y","Z">>
Lower == <<"a","b","c","d","e","f","g","h","i","j","k","l","m","n","o","p","q","r","s","t","u","v","w","x","y","z">>
DigitChars == <<"0","1","2","3","4","5","6","7","8","9">>
Whitespace == {" ", "\t"}

IndexIn(c, s) == CHOOSE i \in 1..Len(s) : s[i] = c
Occurs(c, s) == \E i \in 1..Len(s) : s[i] = c

IsUpper(c) == Occurs(c, Upper)
IsLower(c) == Occurs(c, Lower)
IsCased(c) == IsUpper(c) \/ IsLower(c)
IsDigit(c) == Occurs(c, DigitChars)
DigitValue(c) == IndexIn(c, DigitChars) - 1

LowerChar(c) == IF IsUpper(c) THEN Lower[IndexIn(c, Upper)] ELSE c
UpperChar(c) == IF IsLower(c) THEN Upper[IndexIn(c, Lower)] ELSE c

\* str.lower()
StrLower(s) == [i \in 1..Len(s) |-> LowerChar(s[i])]
\* str.upper()
StrUpper(s) == [i \in 1..Len(s) |-> UpperChar(s[i])]

\* str.strip(): leading and trailing whitespace removed.
StrStrip(s) ==
    LET keep == {i \in 1..Len(s) : s[i] \notin Whitespace}
    IN  IF keep = {} THEN << >>
        ELSE LET lo == CHOOSE i \in keep : \A j \in keep : i <= j
                 hi == CHOOSE i \in keep : \A j \in keep : j <= i
             IN  SubSeq(s, lo, hi)

\* str.title(): a cased character is upper-cased when the character before it
\* is not cased (or there is none), lower-cased otherwise.
StrTitle(s) ==
    [i \in 1..Len(s) |->
        IF i > 1 /\ IsCased(s[i - 1]) THEN LowerChar(s[i]) ELSE UpperChar(s[i])]

\* k in name
Contains(k, name) ==
    \E i \in 0..(Len(name) - Len(k)) : SubSeq(name, i + 1, i + Len(k)) = k

\* value.split('/'): the pieces between the separators, in order.
RECURSIVE StrSplit(_, _)
StrSplit(s, sep) ==
    IF ~Occurs(sep, s) THEN <<s>>
    ELSE LET i == CHOOSE j \in 1..Len(s) :
                      s[j] = sep /\ \A k \in 1..(j - 1) : s[k] # sep
         IN  <<SubSeq(s, 1, i - 1)>> \o StrSplit(SubSeq(s, i + 1, Len(s)), sep)

RECURSIVE DigitsValue(_)
DigitsValue(s) ==
    IF s = << >> THEN 0
    ELSE 10 * DigitsValue(SubSeq(s, 1, Len(s) - 1)) + DigitValue(s[Len(s)])

AllDigits(s) == \A i \in 1..Len(s) : IsDigit(s[i])

\* An optional sign in front of body.
Sign(s) == IF s # << >> /\ s[1] = "-" THEN -1 ELSE 1
Unsigned(s) == IF s # << >> /\ s[1] \in {"+", "-"} THEN Tail(s) ELSE s

\* int(s) of a str: surrounding whitespace dropped, an optional sign, then one
\* or more decimal digits; anything else raises ValueError (ok = FALSE).
PyInt(s) ==
    LET t == StrStrip(s)
        u == Unsigned(t)
    IN  IF u # << >> /\ AllDigits(u)
        THEN [ok |-> TRUE, n |-> Sign(t) * DigitsValue(u)]
        ELSE [ok |-> FALSE, n |-> 0]

\* Python floats.
Num(n) == [c |-> "num", n |-> n]
NaN == [c |-> "nan", n |-> 0]
Inf(sign) == [c |-> "inf", n |-> sign]
NoneValue == [c |-> "None", n |-> 0]

\* float(s) of a str: surrounding whitespace dropped, an optional sign, then
\* nan, inf, infinity (any case) or decimal digits with at most one point and
\* at least one digit.  The inputs carry at most one decimal, which the tenths
\* hold exactly; exponents and underscores are outside the inputs.
PyFloatOfStr(s) ==
    LET t == StrStrip(s)
        u == StrLower(Unsigned(t))
        parts == StrSplit(u, ".")
        whole == parts[1]
        frac == IF Len(parts) = 2 THEN parts[2] ELSE << >>
    IN  IF u = <<"n","a","n">> THEN [ok |-> TRUE, f |-> NaN]
        ELSE IF u \in {<<"i","n","f">>, <<"i","n","f","i","n","i","t","y">>} THEN [ok |-> TRUE, f |-> Inf(Sign(t))]
        ELSE IF /\ Len(parts) <= 2
                /\ AllDigits(whole) /\ AllDigits(frac)
                /\ Len(whole) + Len(frac) >= 1
                /\ Len(frac) <= 1
             THEN [ok |-> TRUE,
                   f |-> Num(Sign(t) * (10 * DigitsValue(whole) + DigitsValue(frac)))]
        ELSE [ok |-> FALSE, f |-> NaN]

\* str(n) of an int.
RECURSIVE NatStr(_)
NatStr(n) ==
    IF n < 10 THEN <<DigitChars[n + 1]>>
    ELSE NatStr(n \div 10) \o <<DigitChars[(n % 10) + 1]>>

IntStr(n) == IF n < 0 THEN <<"-">> \o NatStr(-n) ELSE NatStr(n)

\* str(f) of a float: repr gives the shortest decimal, always with a point.
FloatStr(f) ==
    IF f.c = "nan" THEN <<"n","a","n">>
    ELSE IF f.c = "inf" THEN (IF f.n < 0 THEN <<"-","i","n","f">> ELSE <<"i","n","f">>)
    ELSE LET a == IF f.n < 0 THEN -f.n ELSE f.n
         IN  (IF f.n < 0 THEN <<"-">> ELSE << >>)
                 \o NatStr(a \div 10) \o <<".">> \o NatStr(a % 10)

\* A cell of the DataFrame: a str, or a float (NaN for a missing cell).
StrCell(s) == [type |-> "str", s |-> s, f |-> NaN]
FloatCell(f) == [type |-> "float", s |-> << >>, f |-> f]

\* str(cell)
CellStr(cell) == IF cell.type = "str" THEN cell.s ELSE FloatStr(cell.f)

\* float(cell): a float is itself, a str is parsed.
PyFloat(cell) ==
    IF cell.type = "str" THEN PyFloatOfStr(cell.s) ELSE [ok |-> TRUE, f |-> cell.f]

\* FloatLess with <= where the code has <: a value at a bound falls outside it.
FloatLessOrEqual(a, b) ==
    IF a.c = "None" \/ b.c = "None" THEN [ok |-> FALSE, v |-> FALSE]
    ELSE IF a.c = "nan" \/ b.c = "nan" THEN [ok |-> TRUE, v |-> FALSE]
    ELSE IF a.c = "inf" THEN [ok |-> TRUE, v |-> a.n < 0]
    ELSE IF b.c = "inf" THEN [ok |-> TRUE, v |-> b.n > 0]
    ELSE [ok |-> TRUE, v |-> a.n <= b.n]

\* a < b on floats: TypeError (ok = FALSE) when one side is None; every
\* comparison with NaN is False.
FloatLess(a, b) ==
    IF a.c = "None" \/ b.c = "None" THEN [ok |-> FALSE, v |-> FALSE]
    ELSE IF a.c = "nan" \/ b.c = "nan" THEN [ok |-> TRUE, v |-> FALSE]
    ELSE IF a.c = "inf" THEN [ok |-> TRUE, v |-> a.n < 0 /\ ~(b.c = "inf" /\ b.n < 0)]
    ELSE IF b.c = "inf" THEN [ok |-> TRUE, v |-> b.n > 0]
    ELSE [ok |-> TRUE, v |-> a.n < b.n]

\* ------------------------------------------------------------ static tables

Range(mn, mx, unit) == [mn |-> mn, mx |-> mx, unit |-> unit]

\* NORMAL_RANGES as the module builds it: name -> (min, max, unit), in tenths.
InitialNormalRanges ==
    (<<"H","e","m","o","g","l","o","b","i","n">> :> Range(Num(120), Num(160), "g/dL")) @@
    (<<"V","i","t","a","m","i","n"," ","D">> :> Range(Num(200), Num(500), "ng/mL")) @@
    (<<"C","h","o","l","e","s","t","e","r","o","l">> :> Range(Num(0), Num(2000), "mg/dL")) @@
    (<<"G","l","u","c","o","s","e">> :> Range(Num(700), Num(1400), "mg/dL")) @@
    (<<"H","D","L">> :> Range(Num(400), Num(600), "mg/dL")) @@
    (<<"L","D","L">> :> Range(Num(0), Num(1000), "mg/dL")) @@
    (<<"T","r","i","g","l","y","c","e","r","i","d","e","s">> :> Range(Num(0), Num(1500), "mg/dL")) @@
    (<<"W","B","C">> :> Range(Num(40), Num(110), "x10^3/uL")) @@
    (<<"R","B","C">> :> Range(Num(45), Num(59), "x10^6/uL")) @@
    (<<"P","l","a","t","e","l","e","t","s">> :> Range(Num(1500), Num(4500), "x10^3/uL")) @@
    (<<"B","l","o","o","d"," ","P","r","e","s","s","u","r","e">> :> Range(NoneValue, NoneValue, "mmHg"))

\* RECOMMENDATIONS as the module builds it: '<test>_<direction>' -> message
\* (the dash of the two default messages written in ASCII).
InitialRecommendations ==
    (<<"H","e","m","o","g","l","o","b","i","n","_","l","o","w">> :> "Consider iron-rich foods (spinach, red meat, lentils). Consult physician for anemia evaluation.") @@
    (<<"H","e","m","o","g","l","o","b","i","n","_","h","i","g","h">> :> "Could indicate dehydration or other issues; consult a doctor.") @@
    (<<"V","i","t","a","m","i","n"," ","D","_","l","o","w">> :> "Increase sun exposure and consider Vitamin D supplementation after consulting a physician.") @@
    (<<"V","i","t","a","m","i","n"," ","D","_","h","i","g","h">> :> "Excess supplements; consult doctor.") @@
    (<<"C","h","o","l","e","s","t","e","r","o","l","_","h","i","g","h">> :> "Reduce saturated fats, avoid processed foods, increase fiber and exercise. Consider lipid profile review with a doctor.") @@
    (<<"C","h","o","l","e","s","t","e","r","o","l","_","l","o","w">> :> "May indicate malnutrition or other issues.") @@
    (<<"G","l","u","c","o","s","e","_","h","i","g","h">> :> "Reduce sugar and refined carbs, increase physical activity, monitor blood glucose and consult doctor for diabetes evaluation.") @@
    (<<"G","l","u","c","o","s","e","_","l","o","w">> :> "Could cause hypoglycemia; eat balanced diet.") @@
    (<<"B","l","o","o","d"," ","P","r","e","s","s","u","r","e","_","h","i","g","h">> :> "Risk of hypertension; reduce salt, exercise.") @@
    (<<"B","l","o","o","d"," ","P","r","e","s","s","u","r","e","_","l","o","w">> :> "May cause dizziness; consult doctor.") @@
    (<<"d","e","f","a","u","l","t","_","l","o","w">> :> "Value below normal - consider medical follow-up.") @@
    (<<"d","e","f","a","u","l","t","_","h","i","g","h">> :> "Value above normal - consider medical follow-up.")

Condition(test, status) == [test |-> test, status |-> status]

\* DISEASE_RULES as the module builds it, in declaration order.
InitialDiseaseRules ==
    << [conditions |-> << Condition(<<"H","e","m","o","g","l","o","b","i","n">>, "High"),
                          Condition(<<"C","h","o","l","e","s","t","e","r","o","l">>, "Low") >>,
        disease |-> "Possible Polycythemia or metabolic disorder",
        advice |-> "Consult a hematologist; unusual profile, detailed tests needed."],
       [conditions |-> << Condition(<<"C","h","o","l","e","s","t","e","r","o","l">>, "High"),
                          Condition(<<"G","l","u","c","o","s","e">>, "High"),
                          Condition(<<"B","l","o","o","d"," ","P","r","e","s","s","u","r","e">>, "High") >>,
        disease |-> "Metabolic Syndrome",
        advice |-> "Risk of diabetes/heart disease; lifestyle changes strongly advised."],
       [conditions |-> << Condition(<<"V","i","t","a","m","i","n"," ","D">>, "Low"),
                          Condition(<<"C","a","l","c","i","u","m">>, "Low") >>,
        disease |-> "Osteoporosis Risk",
        advice |-> "Bone weakness possible; increase Vitamin D and Calcium intake."] >>

\* dict.get(key, default)
DictGet(d, key, default) == IF key \in DOMAIN d THEN d[key] ELSE default

\* ------------------------------------------------------ normalize_test_name

Alias(k, v) == [k |-> k, v |-> v]

\* The alias dict of normalize_test_name, in insertion (= iteration) order.
mapping ==
    << Alias(<<"h","b">>, <<"H","e","m","o","g","l","o","b","i","n">>),
       Alias(<<"h","e","m","o","g","l","o","b","i","n">>, <<"H","e","m","o","g","l","o","b","i","n">>),
       Alias(<<"v","i","t"," ","d">>, <<"V","i","t","a","m","i","n"," ","D">>),
       Alias(<<"v","i","t","a","m","i","n"," ","d">>, <<"V","i","t","a","m","i","n"," ","D">>),
       Alias(<<"c","h","o","l","e","s","t","e","r","o","l"," ","t","o","t","a","l">>, <<"C","h","o","l","e","s","t","e","r","o","l">>),
       Alias(<<"c","h","o","l","e","s","t","e","r","o","l">>, <<"C","h","o","l","e","s","t","e","r","o","l">>),
       Alias(<<"g","l","u","c","o","s","e">>, <<"G","l","u","c","o","s","e">>),
       Alias(<<"b","l","o","o","d"," ","g","l","u","c","o","s","e">>, <<"G","l","u","c","o","s","e">>),
       Alias(<<"s","u","g","a","r">>, <<"G","l","u","c","o","s","e">>),
       Alias(<<"h","d","l">>, <<"H","D","L">>),
       Alias(<<"l","d","l">>, <<"L","D","L">>),
       Alias(<<"t","r","i","g","l","y","c","e","r","i","d","e","s">>, <<"T","r","i","g","l","y","c","e","r","i","d","e","s">>),
       Alias(<<"w","b","c">>, <<"W","B","C">>),
       Alias(<<"r","b","c">>, <<"R","B","C">>),
       Alias(<<"p","l","a","t","e","l","e","t","s">>, <<"P","l","a","t","e","l","e","t","s">>),
       Alias(<<"b","p">>, <<"B","l","o","o","d"," ","P","r","e","s","s","u","r","e">>),
       Alias(<<"b","l","o","o","d"," ","p","r","e","s","s","u","r","e">>, <<"B","l","o","o","d"," ","P","r","e","s","s","u","r","e">>) >>

\* KeywordScan walking the dict from its last key to its first.
RECURSIVE KeywordScanBackward(_, _)
KeywordScanBackward(name, i) ==
    IF i > Len(mapping) THEN StrTitle(name)
    ELSE IF Contains(mapping[Len(mapping) + 1 - i].k, name)
    THEN mapping[Len(mapping) + 1 - i].v
    ELSE KeywordScanBackward(name, i + 1)

\* for k, v in mapping.items(): if k in name: return v   (from position i on)
RECURSIVE KeywordScan(_, _)
KeywordScan(name, i) ==
    IF i > Len(mapping) THEN StrTitle(name)
    ELSE IF Contains(mapping[i].k, name) THEN mapping[i].v
    ELSE KeywordScan(name, i + 1)

normalize_test_name(raw) ==
    LET name == StrStrip(StrLower(raw))
    IN  IF \E i \in 1..Len(mapping) : mapping[i].k = name
        THEN mapping[CHOOSE i \in 1..Len(mapping) : mapping[i].k = name].v
        ELSE KeywordScan(name, 1)

\* ---------------------------------------------------------- evaluate_record

Outcome(status, suggestion) == [status |-> status, suggestion |-> suggestion]

\* PressureStatus with s < 120 and d < 80 where the code has <=.
PressureStatusStrict(s, d) ==
    IF s < 90 \/ d < 60 THEN "Low"
    ELSE IF s < 120 /\ d < 80 THEN "Normal"
    ELSE IF s <= 139 \/ d <= 89 THEN "Elevated"
    ELSE "High"

\* Lines 139-146: the thresholds of the blood-pressure branch.
PressureStatus(s, d) ==
    IF s < 90 \/ d < 60 THEN "Low"
    ELSE IF s <= 120 /\ d <= 80 THEN "Normal"
    ELSE IF s <= 139 \/ d <= 89 THEN "Elevated"
    ELSE "High"

\* Line 147: the message of the blood-pressure branch.
PressureSuggestion(status) ==
    DictGet(RECOMMENDATIONS,
            IF status \in {"Elevated", "High"} THEN <<"d","e","f","a","u","l","t","_","h","i","g","h">> ELSE <<"d","e","f","a","u","l","t","_","l","o","w">>,
            None)

\* Lines 135-149: value is a str holding a slash.  The unpacking s, d = ...
\* needs exactly two pieces and int() must take both; any exception leaves
\* status 'Unknown' and suggestion None.
PressureCase(value) ==
    LET pieces == StrSplit(value, "/")
        s == PyInt(pieces[1])
        d == PyInt(pieces[2])
    IN  IF Len(pieces) = 2 /\ s.ok /\ d.ok
        THEN Outcome(PressureStatus(s.n, d.n),
                     PressureSuggestion(PressureStatus(s.n, d.n)))
        ELSE Outcome("Unknown", None)

\* NoRangeOutcome without its message.
NoRangeOutcomeSilent == Outcome("Unknown", None)

\* Lines 165-168: a test that NORMAL_RANGES does not hold.
NoRangeOutcome == Outcome("Unknown", "No reference range available for this test.")

\* Lines 152-170: the numeric branch.  float() raising, or a comparison with a
\* None bound raising, is caught by the bare except.
NumericCase(test, value) ==
    LET val == PyFloat(value)
    IN  IF ~val.ok THEN Outcome("Unknown", None)
        ELSE IF test \in DOMAIN NORMAL_RANGES
        THEN LET mn == NORMAL_RANGES[test].mn
                 mx == NORMAL_RANGES[test].mx
                 below == FloatLess(val.f, mn)
                 above == FloatLess(mx, val.f)
             IN  IF ~below.ok THEN Outcome("Unknown", None)
                 ELSE IF below.v
                 THEN Outcome("Low",
                              DictGet(RECOMMENDATIONS, test \o <<"_","l","o","w">>,
                                      DictGet(RECOMMENDATIONS, <<"d","e","f","a","u","l","t","_","l","o","w">>, None)))
                 ELSE IF ~above.ok THEN Outcome("Unknown", None)
                 ELSE IF above.v
                 THEN Outcome("High",
                              DictGet(RECOMMENDATIONS, test \o <<"_","h","i","g","h">>,
                                      DictGet(RECOMMENDATIONS, <<"d","e","f","a","u","l","t","_","h","i","g","h">>, None)))
                 ELSE Outcome("Normal", "Within normal range.")
        ELSE NoRangeOutcome

evaluate_record(rec) ==
    LET test == normalize_test_name(rec.Test)
        value == rec.Value
        unit == rec.Unit
        o == IF value.type = "str" /\ Occurs("/", value.s)
             THEN PressureCase(value.s)
             ELSE NumericCase(test, value)
    IN  [Test |-> test, Value |-> value, Unit |-> unit,
         Status |-> o.status, Recommendation |-> o.suggestion]

\* ----------------------------------------------- check_disease_combinations

\* pd.DataFrame(evaluated): the columns are the keys of the dicts, so a frame
\* of no rows has no columns either.
DataFrame(rows) ==
    [columns |-> IF rows = << >> THEN {}
                 ELSE {"Test", "Value", "Unit", "Status", "Recommendation"},
     rows |-> rows]

\* Line 187-188: some row has this Test and this Status.
Found(results_df, cond) ==
    \E i \in 1..Len(results_df.rows) :
        /\ results_df.rows[i].Test = cond.test
        /\ results_df.rows[i].Status = cond.status

RuleMatches(results_df, rule) ==
    \A j \in 1..Len(rule.conditions) : Found(results_df, rule.conditions[j])

Finding(rule) == [Disease |-> rule.disease, Advice |-> rule.advice]

\* for rule in DISEASE_RULES (from position i on): append on a match.
RECURSIVE Detect(_, _)
Detect(results_df, i) ==
    IF i > Len(DISEASE_RULES) THEN << >>
    ELSE (IF RuleMatches(results_df, DISEASE_RULES[i])
          THEN <<Finding(DISEASE_RULES[i])>> ELSE << >>)
         \o Detect(results_df, i + 1)

\* results_df["Test"] raises KeyError on a frame without that column (raised),
\* which nothing in index() catches.
check_disease_combinations(results_df) ==
    IF DISEASE_RULES # << >> /\ DISEASE_RULES[1].conditions # << >>
       /\ ~({"Test", "Status"} \subseteq results_df.columns)
    THEN [raised |-> TRUE, detected |-> << >>]
    ELSE [raised |-> FALSE, detected |-> Detect(results_df, 1)]

\* -------------------------------------------------------------------- index

Req == 1..NumReq

ALLOWED_EXTENSIONS == {<<"c","s","v">>}

\* filename.rsplit('.', 1)[1]: what follows the last dot.
AfterLastDot(filename) ==
    LET pieces == StrSplit(filename, ".") IN pieces[Len(pieces)]

allowed_file(filename) ==
    Occurs(".", filename) /\ StrLower(AfterLastDot(filename)) \in ALLOWED_EXTENSIONS

\* werkzeug's secure_filename (line 219): path separators become blanks, the
\* blank-separated words are joined by '_', every character outside
\* [A-Za-z0-9_.-] is dropped, and leading and trailing '.' and '_' are stripped.
IsSafeChar(c) == IsCased(c) \/ IsDigit(c) \/ c \in {"_", ".", "-"}
IsBlank(c) == c \in Whitespace \/ c = "/"
IsEdgeChar(c) == c \in {".", "_"}

RECURSIVE JoinWords(_)
JoinWords(s) ==
    IF s = << >> THEN << >>
    ELSE IF IsBlank(s[1])
    THEN (IF Len(s) > 1 /\ IsBlank(s[2]) THEN << >> ELSE <<"_">>) \o JoinWords(Tail(s))
    ELSE <<s[1]>> \o JoinWords(Tail(s))

StripEdges(s) ==
    LET keep == {i \in 1..Len(s) : ~IsEdgeChar(s[i])}
    IN  IF keep = {} THEN << >>
        ELSE LET lo == CHOOSE i \in keep : \A j \in keep : i <= j
                 hi == CHOOSE i \in keep : \A j \in keep : j <= i
             IN  SubSeq(s, lo, hi)

BlankToSpace(s) == [i \in 1..Len(s) |-> IF IsBlank(s[i]) THEN " " ELSE s[i]]

secure_filename(filename) ==
    StripEdges(SelectSeq(JoinWords(StrStrip(BlankToSpace(filename))), IsSafeChar))

\* datetime.now().strftime('%Y%m%d%H%M%S'): the clock cut to whole seconds.
strftime(t) == t \div TicksPerSecond

\* os.path.join(UPLOAD_FOLDER, f"{stamp}_{filename}"): the stamp has a fixed
\* width, so the pair decides the path.
UploadPath(stamp, filename) == [stamp |-> stamp, name |-> filename]

\* saved_path + '_results.csv'
ResultsPath(path) == [stamp |-> path.stamp, name |-> path.name \o <<"_","r","e","s","u","l","t","s",".","c","s","v">>]

NoPath == [stamp |-> -1, name |-> << >>]

\* The file a request carries: garbage no CSV parser takes, or a CSV with a
\* header and rows of cells, each cell its text.
Garbage == [fmt |-> "garbage", columns |-> {}, rows |-> << >>]
Csv(columns, rows) == [fmt |-> "csv", columns |-> columns, rows |-> rows]
Row(test, value, unit) == [Test |-> test, Value |-> value, Unit |-> unit]

GetRequest == [method |-> "GET", has_report |-> FALSE, filename |-> << >>, file |-> Garbage]
PostRequest(has_report, filename, file) ==
    [method |-> "POST", has_report |-> has_report, filename |-> filename, file |-> file]

NoResponse == [kind |-> "none", filename |-> << >>]
Redirect == [kind |-> "redirect", filename |-> << >>]
\* render_template('index.html', results=None, ...)
RenderForm == [kind |-> "form", filename |-> << >>]
\* render_template('index.html', results=..., filename=basename(saved_path), ...)
RenderResults(path) == [kind |-> "results", filename |-> path.name]
\* An exception index() does not catch: the framework answers 500.
ServerError == [kind |-> "error", filename |-> << >>]

\* pd.read_csv (line 224) types every column from its text.  A cell that is
\* empty or one of the parser's NA words is missing (NaN).  A column whose
\* other cells are all decimal numbers holds floats; any other column holds the
\* cells' text as str.
NaWords == {<< >>, <<"N","A">>, <<"N","/","A">>, <<"n","/","a">>, <<"N","a","N">>, <<"n","a","n">>, <<"N","U","L","L">>, <<"n","u","l","l">>, <<"N","o","n","e">>}
IsNaWord(text) == text \in NaWords
IsNumberWord(text) ==
    ~IsNaWord(text) /\ text = StrStrip(text) /\ PyFloatOfStr(text).ok

ColumnIsNumeric(cells) ==
    \A i \in 1..Len(cells) : IsNaWord(cells[i]) \/ IsNumberWord(cells[i])

ReadCell(text, numeric) ==
    IF IsNaWord(text) THEN FloatCell(NaN)
    ELSE IF numeric THEN FloatCell(PyFloatOfStr(text).f)
    ELSE StrCell(text)

ReadColumn(cells) ==
    [i \in 1..Len(cells) |-> ReadCell(cells[i], ColumnIsNumeric(cells))]

read_csv(file) ==
    LET n == Len(file.rows)
        tests == ReadColumn([i \in 1..n |-> file.rows[i].Test])
        values == ReadColumn([i \in 1..n |-> file.rows[i].Value])
        units == ReadColumn([i \in 1..n |-> file.rows[i].Unit])
    IN  [fmt |-> file.fmt, columns |-> file.columns,
         rows |-> [i \in 1..n |-> Row(tests[i], values[i], units[i])]]

\* Lines 231-236: one record per row; str() of the Test cell, row.get('Unit', '').
RowRecord(columns, row) ==
    [Test |-> CellStr(row.Test),
     Value |-> row.Value,
     Unit |-> IF "Unit" \in columns THEN row.Unit ELSE StrCell(<< >>)]

RowRecords(df) == [i \in 1..Len(df.rows) |-> RowRecord(df.columns, df.rows[i])]

\* Line 242: [evaluate_record(r) for r in records]
EvaluateAll(recs) == [i \in 1..Len(recs) |-> evaluate_record(recs[i])]

\* DataFrame.to_csv writes a cell's text; a missing cell is written empty.
CsvText(cell) ==
    IF cell.type = "float" /\ cell.f.c = "nan" THEN << >> ELSE CellStr(cell)

\* The results CSV of line 273: the frame's columns, one line per record.
ResultsFile(rows) ==
    [fmt |-> "csv", columns |-> DataFrame(rows).columns,
     rows |-> [i \in 1..Len(rows) |->
                  [Test |-> rows[i].Test, Value |-> CsvText(rows[i].Value),
                   Unit |-> CsvText(rows[i].Unit), Status |-> rows[i].Status,
                   Recommendation |-> rows[i].Recommendation]]]

Write(d, path, content) == (path :> content) @@ d

Init ==
    /\ NORMAL_RANGES = InitialNormalRanges
    /\ RECOMMENDATIONS = InitialRecommendations
    /\ DISEASE_RULES = InitialDiseaseRules
    /\ now = 0
    /\ disk = << >>
    /\ pc = [r \in Req |-> "idle"]
    /\ request = [r \in Req |-> GetRequest]
    /\ saved_path = [r \in Req |-> NoPath]
    /\ records = [r \in Req |-> << >>]
    /\ results = [r \in Req |-> << >>]
    /\ disease_risks = [r \in Req |-> << >>]
    /\ flashes = [r \in Req |-> << >>]
    /\ response = [r \in Req |-> NoResponse]

\* The request ends: flash (or not) and answer.
Finish(r, msgs, resp) ==
    /\ pc' = [pc EXCEPT ![r] = "done"]
    /\ flashes' = [flashes EXCEPT ![r] = @ \o msgs]
    /\ response' = [response EXCEPT ![r] = resp]

\* Lines 202-205 and 279: a GET renders the empty form.
Get(r) ==
    /\ pc[r] = "idle"
    /\ request' = [request EXCEPT ![r] = GetRequest]
    /\ Finish(r, << >>, RenderForm)
    /\ UNCHANGED <<tables, now, disk, saved_path, records, results, disease_risks>>

\* Lines 207-221 and 279: a POST arrives carrying req; the checks on the file
\* part, then the upload is saved under the stamped name.
PostSave(r, req) ==
    /\ pc[r] = "idle"
    /\ req.method = "POST"
    /\ request' = [request EXCEPT ![r] = req]
    /\ IF ~req.has_report
       THEN /\ Finish(r, <<"No file part">>, Redirect)
            /\ UNCHANGED <<disk, saved_path>>
       ELSE IF req.filename = << >>
       THEN /\ Finish(r, <<"No selected file">>, Redirect)
            /\ UNCHANGED <<disk, saved_path>>
       ELSE IF allowed_file(req.filename)
       THEN LET path == UploadPath(strftime(now), secure_filename(req.filename))
            IN  /\ saved_path' = [saved_path EXCEPT ![r] = path]
                /\ disk' = Write(disk, path, req.file)
                /\ pc' = [pc EXCEPT ![r] = "saved"]
                /\ UNCHANGED <<flashes, response>>
       ELSE /\ Finish(r, << >>, RenderForm)
            /\ UNCHANGED <<disk, saved_path>>
    /\ UNCHANGED <<tables, now, records, results, disease_risks>>

\* Lines 223-239: pd.read_csv of the saved file, the column check, the records.
PostRead(r) ==
    /\ pc[r] = "saved"
    /\ LET file == disk[saved_path[r]]
           df == read_csv(file)
       IN  IF file.fmt # "csv"
           THEN /\ Finish(r, <<"Failed to read CSV">>, Redirect)
                /\ UNCHANGED records
           ELSE IF "Test" \notin df.columns \/ "Value" \notin df.columns
           THEN /\ Finish(r, <<"CSV must contain at least Test and Value columns.">>,
                          Redirect)
                /\ UNCHANGED records
           ELSE /\ records' = [records EXCEPT ![r] = RowRecords(df)]
                /\ pc' = [pc EXCEPT ![r] = "read"]
                /\ UNCHANGED <<flashes, response>>
    /\ UNCHANGED <<tables, now, disk, request, saved_path, results, disease_risks>>

\* PostEvaluate writing each record's canonical name back into records.
PostEvaluateInPlace(r) ==
    /\ pc[r] = "read"
    /\ LET evaluated == EvaluateAll(records[r])
           risks == check_disease_combinations(DataFrame(evaluated))
       IN  /\ results' = [results EXCEPT ![r] = evaluated]
           /\ records' = [records EXCEPT ![r] =
                             [i \in 1..Len(@) |-> [@[i] EXCEPT !.Test = evaluated[i].Test]]]
           /\ IF risks.raised
              THEN /\ Finish(r, << >>, ServerError)
                   /\ UNCHANGED <<disk, disease_risks>>
              ELSE /\ disease_risks' = [disease_risks EXCEPT ![r] = risks.detected]
                   /\ disk' = Write(disk, ResultsPath(saved_path[r]), ResultsFile(evaluated))
                   /\ Finish(r, << >>, RenderResults(saved_path[r]))
    /\ UNCHANGED <<tables, now, request, saved_path>>

\* Lines 241-276: evaluate every record, look for the disease combinations,
\* write the results CSV, render the results.  The chart of lines 248-268 reads
\* results and keeps nothing.
PostEvaluate(r) ==
    /\ pc[r] = "read"
    /\ LET evaluated == EvaluateAll(records[r])
           risks == check_disease_combinations(DataFrame(evaluated))
       IN  /\ results' = [results EXCEPT ![r] = evaluated]
           /\ IF risks.raised
              THEN /\ Finish(r, << >>, ServerError)
                   /\ UNCHANGED <<disk, disease_risks>>
              ELSE /\ disease_risks' = [disease_risks EXCEPT ![r] = risks.detected]
                   /\ disk' = Write(disk, ResultsPath(saved_path[r]), ResultsFile(evaluated))
                   /\ Finish(r, << >>, RenderResults(saved_path[r]))
    /\ UNCHANGED <<tables, now, request, saved_path, records>>

\* The wall clock advances.
Tick ==
    /\ now < MaxClock
    /\ now' = now + 1
    /\ UNCHANGED <<tables, disk, pc, request, saved_path, records, results,
                   disease_risks, flashes, response>>

\* ------------------------------------------------------------------- inputs

Header == {"Test", "Value"}
HeaderWithUnit == {"Test", "Value", "Unit"}

\* What the browsers of the web specification send.
WebFiles ==
    { Garbage,
      Csv({"Test", "Unit"}, <<Row(<<"H","e","m","o","g","l","o","b","i","n">>, << >>, <<"g","/","d","L">>)>>),
      Csv(Header, << >>),
      Csv(Header, <<Row(<<"H","e","m","o","g","l","o","b","i","n">>, <<"1","7">>, << >>)>>),
      Csv(HeaderWithUnit, <<Row(<<"h","b">>, <<"1","7",".","5">>, <<"g","/","d","L">>),
                            Row(<<"C","h","o","l","e","s","t","e","r","o","l"," ","t","o","t","a","l">>, <<"-","1">>, <<"m","g","/","d","L">>)>>) }

WebUploads ==
    { PostRequest(FALSE, << >>, Garbage),
      PostRequest(TRUE, << >>, Garbage),
      PostRequest(TRUE, <<"n","o","t","e","s",".","t","x","t">>, Csv(Header, <<Row(<<"H","e","m","o","g","l","o","b","i","n">>, <<"1","7">>, << >>)>>)),
      PostRequest(TRUE, <<"c","s","v">>, Csv(Header, <<Row(<<"H","e","m","o","g","l","o","b","i","n">>, <<"1","7">>, << >>)>>)) }
    \cup { PostRequest(TRUE, name, file) :
              name \in {<<"l","a","b",".","c","s","v">>, <<"L","A","B"," ","1",".","C","S","V">>, <<"L","A","B","_","1",".","C","S","V">>}, file \in WebFiles }

\* Test names of the single-record specification.
TestNames ==
    { <<"H","e","m","o","g","l","o","b","i","n">>, <<"h","b">>, <<" ","H","B"," ">>, <<"h","b","p">>, <<"V","i","t","a","m","i","n"," ","D">>, <<"v","i","t"," ","d">>, <<"V","I","T"," ","D","3">>,
      <<"c","h","o","l","e","s","t","e","r","o","l"," ","t","o","t","a","l">>, <<"C","h","o","l","e","s","t","e","r","o","l">>, <<"H","D","L"," ","C","h","o","l","e","s","t","e","r","o","l">>, <<"g","l","u","c","o","s","e">>,
      <<"B","l","o","o","d"," ","G","l","u","c","o","s","e">>, <<"b","l","o","o","d"," ","s","u","g","a","r">>, <<"h","d","l">>, <<"L","D","L">>, <<"T","r","i","g","l","y","c","e","r","i","d","e","s">>, <<"w","b","c">>,
      <<"W","B","C"," ","c","o","u","n","t">>, <<"r","b","c">>, <<"P","l","a","t","e","l","e","t","s">>, <<"b","p">>, <<"B","l","o","o","d"," ","P","r","e","s","s","u","r","e">>, <<"c","a","l","c","i","u","m">>,
      <<"C","A","L","C","I","U","M">>, <<"v","i","t","a","m","i","n"," ","b","1","2">>, <<"t","3","-","t","o","t","a","l">>, <<"t","s","h","\t">>, << >> }

\* Numbers around every bound of NORMAL_RANGES, in tenths.
BoundTenths ==
    UNION { {b.mn.n - 1, b.mn.n, b.mn.n + 1, b.mx.n - 1, b.mx.n, b.mx.n + 1} :
                b \in { InitialNormalRanges[k] : k \in DOMAIN InitialNormalRanges } }

\* A number's text as a lab sheet writes it: 13.5, and 13 for 13.0.
NumberText(n) ==
    IF n % 10 = 0 THEN IntStr(n \div 10) ELSE FloatStr(Num(n))

NumberTexts == { NumberText(n) : n \in BoundTenths } \cup {<<"i","n","f">>, <<"-","i","n","f">>, <<"+","7",".">>}

SystolicInputs == {-5, 85, 89, 90, 119, 120, 121, 125, 139, 140}
DiastolicInputs == {55, 59, 60, 79, 80, 81, 85, 89, 90}

PressureTexts ==
    { IntStr(s) \o <<"/">> \o IntStr(d) : s \in SystolicInputs, d \in DiastolicInputs }
    \cup { <<"1","2","0","/">>, <<"/","8","0">>, <<"/">>, <<"1","2","0","/","8","0","/","1">>, <<"a","/","b">>, <<"1","2",".","5","/","8","0">>, <<" ","1","2","0"," ","/"," ","8","0"," ">>,
           <<"+","1","3","0","/","8","5">>, <<"1","2","0","/","8","o">> }

OtherTexts == { << >>, <<"n","a","n">>, <<"N","A">>, <<"a","b","c">>, <<"h","i","g","h">>, <<"1",".","2",".","3">>, <<"-">>, <<"1","2",",","5">> }

\* Numbers with blanks around them, met as text in a column of mixed cells.
PaddedTexts == { <<" ","1","2"," ">>, <<"1","6"," ">>, <<" ","4",".","5">> }

\* A one-row sheet, whose Value column is typed by its one cell ...
SingleRowFiles ==
    { Csv(Header, <<Row(t, v, << >>)>>) :
          t \in TestNames, v \in NumberTexts \cup PressureTexts \cup OtherTexts }

\* ... and the same row above a blood-pressure row, which makes the column text.
MixedFiles ==
    { Csv(Header, <<Row(t, v, << >>), Row(<<"b","p">>, <<"1","1","8","/","7","8">>, << >>)>>) :
          t \in TestNames, v \in NumberTexts \cup OtherTexts \cup PaddedTexts }

RecordUploads == { PostRequest(TRUE, <<"l","a","b",".","c","s","v">>, f) : f \in SingleRowFiles \cup MixedFiles }

\* Rows that between them reach every (test, status) pair of DISEASE_RULES.
RuleRows ==
    { Row(<<"H","e","m","o","g","l","o","b","i","n">>, <<"1","7">>, <<"g","/","d","L">>),
      Row(<<"H","e","m","o","g","l","o","b","i","n">>, <<"1","3">>, <<"g","/","d","L">>),
      Row(<<"C","h","o","l","e","s","t","e","r","o","l">>, <<"-","1">>, <<"m","g","/","d","L">>),
      Row(<<"C","h","o","l","e","s","t","e","r","o","l">>, <<"2","4","0">>, <<"m","g","/","d","L">>),
      Row(<<"G","l","u","c","o","s","e">>, <<"1","8","0">>, <<"m","g","/","d","L">>),
      Row(<<"b","p">>, <<"1","5","0","/","9","5">>, <<"m","m","H","g">>),
      Row(<<"V","i","t","a","m","i","n"," ","D">>, <<"1","2">>, <<"n","g","/","m","L">>),
      Row(<<"c","a","l","c","i","u","m">>, <<"8","0","/","5","0">>, << >>) }

RECURSIVE SeqsUpTo(_, _)
SeqsUpTo(S, n) ==
    IF n = 0 THEN {<< >>}
    ELSE LET shorter == SeqsUpTo(S, n - 1)
         IN  shorter \cup { Append(q, x) : q \in {p \in shorter : Len(p) = n - 1}, x \in S }

BatchUploads ==
    { PostRequest(TRUE, <<"l","a","b",".","c","s","v">>, Csv(HeaderWithUnit, rows)) :
          rows \in SeqsUpTo(RuleRows, MaxBatch) }

\* ----------------------------------------------------------- specifications

\* The web application: NumReq browsers, each sending one request.
Next ==
    \/ \E r \in Req : Get(r)
    \/ \E r \in Req : \E req \in WebUploads : PostSave(r, req)
    \/ \E r \in Req : PostRead(r)
    \/ \E r \in Req : PostEvaluate(r)
    \/ Tick

Spec == Init /\ [][Next]_vars

\* One request carrying a sheet with one record under examination.
NextRecord ==
    \/ \E req \in RecordUploads : PostSave(1, req)
    \/ PostRead(1)
    \/ PostEvaluate(1)

SpecRecord == Init /\ [][NextRecord]_vars

\* One request carrying a batch of up to MaxBatch rows.
NextBatch ==
    \/ \E req \in BatchUploads : PostSave(1, req)
    \/ PostRead(1)
    \/ PostEvaluate(1)

SpecBatch == Init /\ [][NextBatch]_vars

\* The same evaluation run twice: two requests, each carrying one of a few
\* sheets, under one name or two.
RerunRows ==
    { Row(<<"H","e","m","o","g","l","o","b","i","n">>, <<"1","7">>, << >>),
      Row(<<"C","h","o","l","e","s","t","e","r","o","l">>, <<"-","1">>, << >>),
      Row(<<"t","s","h">>, << >>, << >>) }

RerunUploads ==
    { PostRequest(TRUE, name, Csv(Header, rows)) :
          name \in {<<"l","a","b",".","c","s","v">>, <<"l","a","b","_","2",".","c","s","v">>}, rows \in SeqsUpTo(RerunRows, 2) }

NextRerun ==
    \/ \E r \in {1, 2} : \E req \in RerunUploads : PostSave(r, req)
    \/ \E r \in {1, 2} : PostRead(r)
    \/ \E r \in {1, 2} : PostEvaluate(r)
    \/ Tick

SpecRerun == Init /\ [][NextRerun]_vars

\* ------------------------------------------------------------------- claims

\* The records a request has evaluated, each beside its input: position i of
\* results[r] is evaluate_record of position i of records[r].
EvaluatedPairs ==
    UNION { { [rec |-> records[r][i], out |-> results[r][i]] : i \in 1..Len(results[r]) } :
              r \in Req }

HasSlash(value) == value.type = "str" /\ Occurs("/", value.s)

\* The Value is a number without a slash: a float of a numeric column (not a
\* missing cell), or text that is a decimal number, blanks around it or not.
IsPlainNumber(value) ==
    \/ value.type = "float" /\ value.f.c # "nan"
    \/ value.type = "str" /\ value.s \in NumberTexts \cup PaddedTexts

\* The number such a Value stands for, in tenths (infinite: beyond any bound).
TenthsOf(value) ==
    IF value.type = "float" THEN value.f
    ELSE IF value.s \in {<<"i","n","f">>, <<"-","i","n","f">>} THEN Inf(IF value.s = <<"i","n","f">> THEN 1 ELSE -1)
    ELSE IF value.s = <<"+","7",".">> THEN Num(70)
    ELSE IF value.s = <<" ","1","2"," ">> THEN Num(120)
    ELSE IF value.s = <<"1","6"," ">> THEN Num(160)
    ELSE IF value.s = <<" ","4",".","5">> THEN Num(45)
    ELSE Num(CHOOSE n \in BoundTenths : NumberText(n) = value.s)

\* The Value is a missing cell, or text that is neither a number nor has a slash.
IsNotANumber(value) ==
    \/ value.type = "float" /\ value.f.c = "nan"
    \/ value.type = "str" /\ ~Occurs("/", value.s) /\ value.s \notin NumberTexts \cup PaddedTexts

\* The Value is 's/d' with s and d integers, as (s, d) of the inputs write it.
IsPressure(value, s, d) ==
    value.type = "str" /\ value.s = IntStr(s) \o <<"/">> \o IntStr(d)

\* The Value has a slash and is no 's/d' of two integers.
MalformedPressureTexts == { <<"1","2","0","/">>, <<"/","8","0">>, <<"/">>, <<"1","2","0","/","8","0","/","1">>, <<"a","/","b">>, <<"1","2",".","5","/","8","0">>, <<"1","2","0","/","8","o">> }

\* The ordered rules of the blood-pressure branch, as the claims state them.
PressureRule(s, d) ==
    CASE d < 60 \/ s < 90 -> "Low"
      [] ~(d < 60 \/ s < 90) /\ s <= 120 /\ d <= 80 -> "Normal"
      [] ~(d < 60 \/ s < 90) /\ ~(s <= 120 /\ d <= 80) /\ (s <= 139 \/ d <= 89) -> "Elevated"
      [] OTHER -> "High"

BloodPressure == <<"B","l","o","o","d"," ","P","r","e","s","s","u","r","e">>

\* C1 as stated: every key of NORMAL_RANGES, 'Blood Pressure' among them, has
\* a minimum and a maximum, and a record of that biomarker whose Value is a
\* number equal to either is 'Normal'.
C1_InclusiveBoundsEveryKey ==
    \A e \in EvaluatedPairs :
        (e.out.Test \in DOMAIN NORMAL_RANGES /\ IsPlainNumber(e.rec.Value)) =>
            LET range == NORMAL_RANGES[e.out.Test]
            IN  /\ range.mn.c = "num" /\ range.mx.c = "num"
                /\ TenthsOf(e.rec.Value) \in {range.mn, range.mx} => e.out.Status = "Normal"

\* C1 amended: for every key of NORMAL_RANGES but 'Blood Pressure', a record of
\* that biomarker whose Value is a number equal to the range's minimum or
\* maximum is 'Normal' with 'Within normal range.'; 'Blood Pressure' has no
\* bounds (None, None), and a record of it whose Value is a number without a
\* slash is 'Unknown' with no recommendation.
C1_InclusiveBounds ==
    \A e \in EvaluatedPairs :
        (e.out.Test \in DOMAIN NORMAL_RANGES /\ IsPlainNumber(e.rec.Value)) =>
            LET range == NORMAL_RANGES[e.out.Test]
            IN  IF e.out.Test = BloodPressure
                THEN /\ range.mn = NoneValue /\ range.mx = NoneValue
                     /\ e.out.Status = "Unknown" /\ e.out.Recommendation = None
                ELSE /\ range.mn.c = "num" /\ range.mx.c = "num"
                     /\ TenthsOf(e.rec.Value) \in {range.mn, range.mx} =>
                            /\ e.out.Status = "Normal"
                            /\ e.out.Recommendation = "Within normal range."

\* A record of RBC at 5.9, the maximum of its range, was evaluated and is Normal.
C1_Witness ==
    \E e \in EvaluatedPairs :
        /\ e.out.Test = <<"R","B","C">>
        /\ IsPlainNumber(e.rec.Value) /\ TenthsOf(e.rec.Value) = Num(59)
        /\ e.out.Status = "Normal"

\* C2: a Value 's/d' of two integers is classified by the ordered rules (Low if
\* d < 60 or s < 90; else Normal if s <= 120 and d <= 80; else Elevated if
\* s <= 139 or d <= 89; else High) whatever the test name: '119/79' Normal,
\* '140/90' High, '125/85' Elevated, '85/55' Low.
C2_PressureRules ==
    \A e \in EvaluatedPairs :
        /\ \A s \in SystolicInputs, d \in DiastolicInputs :
               IsPressure(e.rec.Value, s, d) => e.out.Status = PressureRule(s, d)
        /\ e.rec.Value = StrCell(<<"1","1","9","/","7","9">>) => e.out.Status = "Normal"
        /\ e.rec.Value = StrCell(<<"1","4","0","/","9","0">>) => e.out.Status = "High"
        /\ e.rec.Value = StrCell(<<"1","2","5","/","8","5">>) => e.out.Status = "Elevated"
        /\ e.rec.Value = StrCell(<<"8","5","/","5","5">>) => e.out.Status = "Low"
        /\ e.rec.Value = StrCell(<<" ","1","2","0"," ","/"," ","8","0"," ">>) => e.out.Status = "Normal"
        /\ e.rec.Value = StrCell(<<"+","1","3","0","/","8","5">>) => e.out.Status = "Elevated"

\* '140/90' was evaluated under a name that is no blood pressure, and is High.
C2_Witness ==
    \E e \in EvaluatedPairs :
        /\ e.rec.Value = StrCell(<<"1","4","0","/","9","0">>)
        /\ e.out.Test = <<"C","a","l","c","i","u","m">>
        /\ e.out.Status = "High"

\* C3 as stated: a record whose Test normalizes to no key of NORMAL_RANGES is
\* 'Unknown' with 'No reference range available for this test.', whatever its
\* Value.
C3_UnknownTestAnyValue ==
    \A e \in EvaluatedPairs :
        e.out.Test \notin DOMAIN NORMAL_RANGES =>
            /\ e.out.Status = "Unknown"
            /\ e.out.Recommendation = "No reference range available for this test."

\* C3 amended: a record whose Test normalizes to no key of NORMAL_RANGES is
\* 'Unknown' with 'No reference range available for this test.' when its Value
\* has no slash and is a number or a missing cell; 'Unknown' with no
\* recommendation when its Value is other text without a slash; and when its
\* Value has a slash it is classified as a blood pressure whatever its name
\* ('Unknown' with no recommendation unless the slash parts two integers).
C3_UnknownTest ==
    \A e \in EvaluatedPairs :
        e.out.Test \notin DOMAIN NORMAL_RANGES =>
            /\ (~HasSlash(e.rec.Value)
                  /\ (IsPlainNumber(e.rec.Value) \/ e.rec.Value = FloatCell(NaN))) =>
                   /\ e.out.Status = "Unknown"
                   /\ e.out.Recommendation = "No reference range available for this test."
            /\ (e.rec.Value.type = "str" /\ IsNotANumber(e.rec.Value)) =>
                   /\ e.out.Status = "Unknown"
                   /\ e.out.Recommendation = None
            /\ \A s \in SystolicInputs, d \in DiastolicInputs :
                   IsPressure(e.rec.Value, s, d) =>
                       /\ e.out.Status = PressureRule(s, d)
                       /\ e.out.Status # "Unknown"
            /\ (e.rec.Value.type = "str" /\ e.rec.Value.s \in MalformedPressureTexts) =>
                   /\ e.out.Status = "Unknown"
                   /\ e.out.Recommendation = None

\* A record of an unknown test with a number was evaluated.
C3_Witness ==
    \E e \in EvaluatedPairs :
        /\ e.out.Test = <<"V","i","t","a","m","i","n"," ","B","1","2">>
        /\ IsPlainNumber(e.rec.Value)
        /\ e.out.Recommendation = "No reference range available for this test."

\* C4: a Value that is no number (text without a slash, a missing cell that
\* read_csv delivers as NaN, a slash that parts no two integers) makes the
\* record 'Unknown', and every batch of n rows yields n evaluated records in
\* the order of the rows.
C4_ParseFailureIsUnknown ==
    /\ \A e \in EvaluatedPairs :
           (IsNotANumber(e.rec.Value)
              \/ (e.rec.Value.type = "str" /\ e.rec.Value.s \in MalformedPressureTexts)) =>
                  e.out.Status = "Unknown"
    /\ \A r \in Req :
           response[r].kind \in {"results", "error"} =>
               /\ Len(results[r]) = Len(records[r])
               /\ \A i \in 1..Len(results[r]) : results[r][i].Value = records[r][i].Value

\* What the matcher is to return for a frame of these rows: one finding for
\* every rule all of whose pairs some row holds, in declaration order.
RECURSIVE ExpectedFindings(_, _)
ExpectedFindings(rows, i) ==
    IF i > Len(InitialDiseaseRules) THEN << >>
    ELSE LET rule == InitialDiseaseRules[i]
             all == \A j \in 1..Len(rule.conditions) :
                        \E k \in 1..Len(rows) :
                            /\ rows[k].Test = rule.conditions[j].test
                            /\ rows[k].Status = rule.conditions[j].status
         IN  (IF all THEN <<[Disease |-> rule.disease, Advice |-> rule.advice]>> ELSE << >>)
                 \o ExpectedFindings(rows, i + 1)

\* C5: for every set of evaluated records the matcher returns, in declaration
\* order, exactly one finding for each rule all of whose (biomarker, status)
\* pairs some record holds, and none for any other rule.
C5_FindingsIffAllPairs ==
    \A r \in Req :
        response[r].kind \in {"results", "error"} =>
            /\ response[r].kind = "results"
            /\ disease_risks[r] = ExpectedFindings(results[r], 1)

\* The filename ends in .csv, in any letter case.
EndsInCsv(filename) ==
    \E i \in 1..Len(filename) : StrLower(SubSeq(filename, i, Len(filename))) = <<".","c","s","v">>

\* No other request saved under this request's path.
OwnPath(r) == \A q \in Req \ {r} : saved_path[q] # saved_path[r]

\* The five conditions under which index() is to refuse a POST; the last two
\* for a request that read the file it saved itself.
Refused(r) ==
    /\ pc[r] = "done"
    /\ request[r].method = "POST"
    /\ \/ ~request[r].has_report
       \/ request[r].filename = << >>
       \/ ~EndsInCsv(request[r].filename)
       \/ /\ OwnPath(r)
          /\ \/ request[r].file.fmt # "csv"
             \/ ~({"Test", "Value"} \subseteq request[r].file.columns)

\* C6: each of the five error conditions ends the request with a flash message
\* and a redirect to the form, nothing evaluated, no results CSV written and no
\* results page rendered.
C6_ErrorsFlashAndRedirect ==
    \A r \in Req :
        Refused(r) =>
            /\ Len(flashes[r]) = 1
            /\ response[r] = Redirect
            /\ results[r] = << >>
            /\ (saved_path[r] # NoPath /\ OwnPath(r)) =>
                   ResultsPath(saved_path[r]) \notin DOMAIN disk

\* C7: any two requests that saved an upload saved it under different paths.
C7_SavedPathsDiffer ==
    \A r1, r2 \in Req :
        (r1 # r2 /\ saved_path[r1] # NoPath /\ saved_path[r2] # NoPath) =>
            saved_path[r1] # saved_path[r2]

\* C8: evaluating leaves the static tables and the input records as they were,
\* and two evaluations of equal record sets end with equal results, equal
\* findings and the same kind of answer.
C8_EvaluationIsPure ==
    [][/\ NORMAL_RANGES' = InitialNormalRanges
       /\ RECOMMENDATIONS' = InitialRecommendations
       /\ DISEASE_RULES' = InitialDiseaseRules
       /\ \A r \in Req : pc[r] = "read" => records'[r] = records[r]
       /\ \A r1, r2 \in Req :
              (/\ response'[r1].kind \in {"results", "error"}
               /\ response'[r2].kind \in {"results", "error"}
               /\ records'[r1] = records'[r2]) =>
                  /\ results'[r1] = results'[r2]
                  /\ disease_risks'[r1] = disease_risks'[r2]
                  /\ response'[r1].kind = response'[r2].kind]_vars

\* Both requests evaluated the same two records.
C8_Witness ==
    /\ response[1].kind = "results" /\ response[2].kind = "results"
    /\ records[1] = records[2]
    /\ Len(records[1]) = 2
    /\ results[1] = results[2]

\* The name normalize_test_name is to return, by the three ordered steps.
ExpectedName(raw) ==
    LET name == StrStrip(StrLower(raw))
        exact == {i \in 1..Len(mapping) : mapping[i].k = name}
        inside == {i \in 1..Len(mapping) : Contains(mapping[i].k, name)}
    IN  IF exact # {} THEN mapping[CHOOSE i \in exact : TRUE].v
        ELSE IF inside # {}
        THEN mapping[CHOOSE i \in inside : \A j \in inside : i <= j].v
        ELSE StrTitle(name)

\* C9: normalize_test_name returns, for the lower-cased trimmed input, the
\* canonical name of the alias key equal to it; failing that, of the first
\* declared alias key inside it; failing that, the input title-cased; and inputs
\* that differ in letter case or surrounding blanks only get the same name.
C9_NormalizeSteps ==
    \A e \in EvaluatedPairs :
        /\ e.out.Test = ExpectedName(e.rec.Test)
        /\ normalize_test_name(StrUpper(e.rec.Test)) = e.out.Test
        /\ normalize_test_name(<<" ">> \o e.rec.Test \o <<"\t", " ">>) = e.out.Test

\* 'HDL Cholesterol' holds two alias keys; the first declared, cholesterol, won.
C9_Witness ==
    \E e \in EvaluatedPairs :
        /\ e.rec.Test = <<"H","D","L"," ","C","h","o","l","e","s","t","e","r","o","l">>
        /\ e.out.Test = <<"C","h","o","l","e","s","t","e","r","o","l">>

\* The messages of one direction for a test.
LowMessages(test) ==
    {InitialRecommendations[<<"d","e","f","a","u","l","t","_","l","o","w">>]}
        \cup {InitialRecommendations[k] : k \in {test \o <<"_","l","o","w">>} \cap DOMAIN InitialRecommendations}
HighMessages(test) ==
    {InitialRecommendations[<<"d","e","f","a","u","l","t","_","h","i","g","h">>]}
        \cup {InitialRecommendations[k] : k \in {test \o <<"_","h","i","g","h">>} \cap DOMAIN InitialRecommendations}

\* C10: in every evaluated record the Recommendation agrees with the Status, on
\* the numeric and on the blood-pressure branch: Normal with 'Within normal
\* range.', Low with a low message, High and Elevated with a high message,
\* Unknown with none or with the no-reference-range message.
C10_RecommendationAgrees ==
    \A e \in EvaluatedPairs :
        CASE e.out.Status = "Normal" -> e.out.Recommendation = "Within normal range."
          [] e.out.Status = "Low" -> e.out.Recommendation \in LowMessages(e.out.Test)
          [] e.out.Status \in {"High", "Elevated"} ->
                 e.out.Recommendation \in HighMessages(e.out.Test)
          [] e.out.Status = "Unknown" ->
                 e.out.Recommendation \in
                     {None, "No reference range available for this test."}
          [] OTHER -> FALSE

=============================================================================
